---- MODULE Spec2Model ----
(***************************************************************************)
(* MADS: the debate engine (engine.py, models.py) and the interactive      *)
(* controller that drives it (controller.py, workers.py, main_window.py).  *)
(*                                                                         *)
(*   Spec         the interactive program: DebateController on the Qt      *)
(*                event loop, with its workers and single-shot timers      *)
(*   EngineSpec   DebateEngine called headless, in any order               *)
(*   ScenarioSpec the turn loop of test_wp1.py                             *)
(*   SpecAll      either of the first two, chosen at the start             *)
(*                                                                         *)
(* Time: one tick is 500 ms. datetime.now() is a logical clock, read once  *)
(* per operation and advanced by the read. influence_weight is held in     *)
(* hundredths (the director's slider value, director.py:46).               *)
(***************************************************************************)
EXTENDS Naturals, Integers, Sequences, FiniteSets, Bags

VARIABLES
    state,             \* engine.state: the DebateState
    clock,             \* the next value datetime.now() returns
    is_waiting_delay,  \* DebateController.is_waiting_delay
    in_flight,         \* workers started and not yet delivered, in start order
    timers,            \* pending QTimer.singleShot timers: a bag of [kind, due]
    btn_pause,         \* MainWindow.btn_pause.isChecked()
    api_key,           \* whether OPENROUTER_API_KEY is set
    started,           \* start_debate has run
    mode,              \* what drives the engine: the controller, a caller, the test
    pc,                \* test_wp1: position in the test
    turn,              \* test_wp1: iterations of the turn loop done
    worker_pc,         \* OpenRouterWorker.run: position in the run
    full_content,      \* OpenRouterWorker.run: the fragments received so far
    signals,           \* OpenRouterWorker.signals: what the run has emitted, in order
    args,              \* a helper called on its own: the arguments of the call
    result,            \* a helper called on its own: what the call returned or raised
    file,              \* the snapshot file save_to_file writes and load_from_file reads
    tries,             \* exponential_backoff: tries
    delay,             \* exponential_backoff: delay
    waits,             \* exponential_backoff: the time.sleep calls made, in order
    cfg,               \* run_debate: the configuration and arguments it runs with
    batch_pc,          \* run_debate: position in the function
    round_index,       \* run_debate: r
    agent_index,       \* run_debate: position of agent in agents
    batch_history,     \* run_debate: history
    log_file,          \* run_debate: the records appended to the log file, in order
    reply_text,        \* run_debate: reply_text
    shutdown_event,    \* main.py: _shutdown_event.is_set()
    completed_seen,    \* history: status has been COMPLETED
    awaited,           \* history, kept in mode "directed": the instruction of the
                       \* last injection accepted while RUNNING that no dispatch
                       \* has followed yet
    lastOp,            \* history: the operation of the last step
    lastArg            \* history: its arguments and what it found

engineVars == <<state, clock>>
ctrlVars == <<is_waiting_delay, in_flight, timers, btn_pause, started>>
testVars == <<pc, turn>>
workerVars == <<worker_pc, full_content, signals>>
callVars == <<args, result>>
backoffVars == <<tries, delay, waits>>
batchVars == <<cfg, batch_pc, round_index, agent_index, batch_history, log_file,
               reply_text, shutdown_event>>
auxVars == <<callVars, file, backoffVars, batchVars>>
vars == <<state, clock, is_waiting_delay, in_flight, timers, btn_pause,
          api_key, started, mode, pc, turn, worker_pc, full_content, signals,
          args, result, file, tries, delay, waits, cfg, batch_pc, round_index,
          agent_index, batch_history, log_file, reply_text, shutdown_event,
          completed_seen, awaited, lastOp, lastArg>>

----------------------------------------------------------------------------
(* Bounds of the model *)

MaxAgents == 2
MaxRounds == 2
MaxHistory == 2
ExtraRounds == 1
MaxWorkers == 2
MaxTimers == 2

(* Inputs *)

AgentPool ==
    << [id |-> "optimist", name |-> "Optimist"],
       [id |-> "pessimist", name |-> "Pessimist"],
       [id |-> "realist", name |-> "Realist"],
       [id |-> "skeptic", name |-> "Skeptic"],
       [id |-> "analyst", name |-> "Analyst"] >>

Rosters == { SubSeq(AgentPool, 1, n) : n \in 0..MaxAgents }
\* the replies a worker may deliver; an undisturbed run is small enough to
\* follow with two of them
ReplyContents == IF mode = "run" THEN {"reply", "answer"} ELSE {"reply"}
InjectContents == {"stop"}
SliderWeights == {30, 90}
BadWeights == {-10, 150}

----------------------------------------------------------------------------
(* models.py *)

Message(sender_id, sender_name, role, content, influence_weight, is_injection, now) ==
    [ timestamp |-> now,
      sender_id |-> sender_id,
      sender_name |-> sender_name,
      role |-> role,
      content |-> content,
      influence_weight |-> influence_weight,
      is_injection |-> is_injection ]

\* a field that takes any weight
WeightValidAlways(weight) == TRUE

\* Field(0.0, ge=0.0, le=1.0): the constructor raises outside the range
WeightValid(weight) == weight >= 0 /\ weight <= 100

\* Field(0.7, ge=0.0, le=2.0), in hundredths
TemperatureValid(temperature) == temperature >= 0 /\ temperature <= 200

DebateState(agents, max_rounds, now) ==
    [ topic |-> "topic",
      agents |-> agents,
      history |-> << >>,
      status |-> "IDLE",
      current_turn_index |-> 0,
      rounds_completed |-> 0,
      max_rounds |-> max_rounds,
      last_updated |-> now ]

----------------------------------------------------------------------------
(* engine.py: each method as the state it leaves *)

None == [id |-> "None", name |-> "None"]

\* a start that does not look at the roster
start_raises_never(s) == FALSE

start_raises(s) == Len(s.agents) = 0

start(s) == [s EXCEPT !.status = "RUNNING"]

\* a pause that leaves the status alone
pause_never(s) == s

pause(s) == [s EXCEPT !.status = "PAUSED"]

resume(s) == [s EXCEPT !.status = "RUNNING"]

get_current_agent(s) ==
    IF Len(s.agents) = 0 THEN None ELSE s.agents[s.current_turn_index + 1]

\* variant: the index is not reduced modulo the roster size
NextIndexNoWrap(index, n) == index + 1

NextIndex(index, n) == (index + 1) % n

\* variant: the termination test is one round early
advance_turn_early(s) ==
    IF Len(s.agents) = 0 THEN s
    ELSE LET next_index == NextIndex(s.current_turn_index, Len(s.agents))
             rounds == IF next_index = 0 THEN s.rounds_completed + 1
                       ELSE s.rounds_completed
         IN [s EXCEPT !.current_turn_index = next_index,
                      !.rounds_completed = rounds,
                      !.status = IF rounds + 1 >= s.max_rounds THEN "COMPLETED" ELSE @]

\* variant: every call counts as a round
advance_turn_every(s) ==
    IF Len(s.agents) = 0 THEN s
    ELSE LET next_index == NextIndex(s.current_turn_index, Len(s.agents))
             rounds == s.rounds_completed + 1
         IN [s EXCEPT !.current_turn_index = next_index,
                      !.rounds_completed = rounds,
                      !.status = IF rounds >= s.max_rounds THEN "COMPLETED" ELSE @]

\* variant: the termination test reads the round counter before the increment
advance_turn_late(s) ==
    IF Len(s.agents) = 0 THEN s
    ELSE LET next_index == NextIndex(s.current_turn_index, Len(s.agents))
             rounds == IF next_index = 0 THEN s.rounds_completed + 1
                       ELSE s.rounds_completed
         IN [s EXCEPT !.current_turn_index = next_index,
                      !.rounds_completed = rounds,
                      !.status = IF s.rounds_completed >= s.max_rounds
                                 THEN "COMPLETED" ELSE @]

\* engine.py:56-76
advance_turn(s) ==
    IF Len(s.agents) = 0 THEN s
    ELSE LET next_index == NextIndex(s.current_turn_index, Len(s.agents))
             rounds == IF next_index = 0 THEN s.rounds_completed + 1
                       ELSE s.rounds_completed
         IN [s EXCEPT !.current_turn_index = next_index,
                      !.rounds_completed = rounds,
                      !.status = IF rounds >= s.max_rounds THEN "COMPLETED" ELSE @]

\* an append that puts the message in front
append_message_front(s, message, now) ==
    [s EXCEPT !.history = <<message>> \o @, !.last_updated = now]

append_message(s, message, now) ==
    [s EXCEPT !.history = Append(@, message), !.last_updated = now]

inject_message_raises(weight) == ~WeightValid(weight)

\* variant: the injection takes a turn slot
inject_message_advancing(s, content, weight, now) ==
    advance_turn(append_message(
        s, Message("director", "Director", "user", content, weight, TRUE, now), now))

\* an injection that ignores its weight and keeps the signature's default
inject_message_unweighted(s, content, weight, now) ==
    append_message(s, Message("director", "Director", "user", content, 100, TRUE, now), now)

inject_message(s, content, weight, now) ==
    append_message(
        s, Message("director", "Director", "user", content, weight, TRUE, now), now)

----------------------------------------------------------------------------
(* prompt_engine.py *)

\* The instruction text is the template chosen, the content put into it
\* and, in the Override template only, the priority "{weight:.1f}"; weights
\* are in hundredths and priorities in tenths.

NoInstruction == [template |-> "none", content |-> "", priority |-> 0]

\* the hundredths ending in 5 that "{:.1f}" rounds up: the double nearest to
\* the weight lies above the tie, or on it with an odd digit before it
TiesRoundedUp == {5, 45, 55, 65, 75, 105, 135, 155, 175, 185}

Format1f(weight) ==
    IF weight % 10 < 5 THEN weight \div 10
    ELSE IF weight % 10 > 5 \/ weight \in TiesRoundedUp
         THEN weight \div 10 + 1
         ELSE weight \div 10

\* a shader whose first tier ends below 0.3
apply_influence_shader_strict(content, weight) ==
    IF weight < 30 THEN [template |-> "Subtle", content |-> content, priority |-> 0]
    ELSE IF weight <= 70
         THEN [template |-> "Mandatory", content |-> content, priority |-> 0]
         ELSE [template |-> "Override", content |-> content, priority |-> Format1f(weight)]

apply_influence_shader(content, weight) ==
    IF weight <= 30 THEN [template |-> "Subtle", content |-> content, priority |-> 0]
    ELSE IF weight <= 70
         THEN [template |-> "Mandatory", content |-> content, priority |-> 0]
         ELSE [template |-> "Override", content |-> content, priority |-> Format1f(weight)]

----------------------------------------------------------------------------
(* History variables *)

NoArg == [none |-> TRUE]

\* no snapshot file on disk
NoFile == [exists |-> FALSE]

TrackArg(op, arg) ==
    /\ lastOp' = op
    /\ lastArg' = arg
    /\ completed_seen' = (completed_seen \/ state'.status = "COMPLETED")

Track(op) == TrackArg(op, NoArg)

----------------------------------------------------------------------------
(* The state after initialize_debate (engine.py) or after the lobby's
   DebateState(...) (lobby.py), before anything has run *)

\* everything but the session and the credentials
InitRest ==
    /\ clock = 1
    /\ is_waiting_delay = FALSE
    /\ in_flight = << >>
    /\ timers = EmptyBag
    /\ btn_pause = FALSE
    /\ started = FALSE
    /\ pc = "start"
    /\ turn = 0
    /\ worker_pc = "created"
    /\ full_content = << >>
    /\ signals = << >>
    /\ args = NoArg
    /\ result = NoArg
    /\ file = NoFile
    /\ tries = 0
    /\ delay = 0
    /\ waits = << >>
    /\ cfg = NoArg
    /\ batch_pc = "entry"
    /\ round_index = 0
    /\ agent_index = 0
    /\ batch_history = << >>
    /\ log_file = << >>
    /\ reply_text = ""
    /\ shutdown_event = FALSE
    /\ completed_seen = FALSE
    /\ awaited = NoInstruction
    /\ lastOp = "init"
    /\ lastArg = NoArg

InitState ==
    /\ \E agents \in Rosters, max_rounds \in 0..MaxRounds :
          state = DebateState(agents, max_rounds, 0)
    /\ api_key \in BOOLEAN
    /\ InitRest

\* DebateEngine(): the state is DebateState() with every field at its default
NewDebateState(now) ==
    [DebateState(<< >>, 50, now) EXCEPT !.topic = ""]

\* a process that holds no session: a helper is called on its own
InitIdle ==
    /\ state = NewDebateState(0)
    /\ api_key = FALSE
    /\ InitRest

----------------------------------------------------------------------------
(* DebateEngine called directly *)

\* what a caller of append_message may pass: a reply of a roster agent
MessageInputs(now) ==
    { Message(a.id, a.name, "assistant", c, 0, FALSE, now) :
        a \in { state.agents[k] : k \in 1..Len(state.agents) }, c \in ReplyContents }

Start ==
    /\ IF start_raises(state)
       THEN state' = state /\ Track("start:ValueError")
       ELSE state' = start(state) /\ Track("start")
    /\ UNCHANGED <<clock, ctrlVars, api_key, mode, auxVars, testVars, workerVars, awaited>>

Pause ==
    /\ state' = pause(state)
    /\ Track("pause")
    /\ UNCHANGED <<clock, ctrlVars, api_key, mode, auxVars, testVars, workerVars, awaited>>

Resume ==
    /\ state' = resume(state)
    /\ Track("resume")
    /\ UNCHANGED <<clock, ctrlVars, api_key, mode, auxVars, testVars, workerVars, awaited>>

AdvanceTurn ==
    /\ state.rounds_completed < state.max_rounds + ExtraRounds
    /\ state' = advance_turn(state)
    /\ Track("advance_turn")
    /\ UNCHANGED <<clock, ctrlVars, api_key, mode, auxVars, testVars, workerVars, awaited>>

AppendMessage ==
    /\ Len(state.history) < MaxHistory
    /\ \E message \in MessageInputs(clock) :
          state' = append_message(state, message, clock)
    /\ clock' = clock + 1
    /\ Track("append_message")
    /\ UNCHANGED <<ctrlVars, api_key, mode, auxVars, testVars, workerVars, awaited>>

InjectMessage ==
    /\ Len(state.history) < MaxHistory
    /\ \E content \in InjectContents, weight \in SliderWeights \cup BadWeights :
          IF inject_message_raises(weight)
          THEN state' = state /\ clock' = clock
               /\ TrackArg("inject_message:ValidationError",
                           [content |-> content, weight |-> weight])
          ELSE state' = inject_message(state, content, weight, clock)
               /\ clock' = clock + 1
               /\ TrackArg("inject_message", [content |-> content, weight |-> weight])
    /\ UNCHANGED <<ctrlVars, api_key, mode, auxVars, testVars, workerVars, awaited>>

NextEngine ==
    \/ Start
    \/ Pause
    \/ Resume
    \/ AdvanceTurn
    \/ AppendMessage
    \/ InjectMessage

InitEngine == InitState /\ mode = "headless"

EngineSpec == InitEngine /\ [][NextEngine]_vars

----------------------------------------------------------------------------
(* controller.py *)

SettleTicks == 1
PacingTicks == 5

Timer(kind, due) == [kind |-> kind, due |-> due]

\* an instruction taken from the first history entry instead of the last
injection_instruction_first(s) ==
    IF Len(s.history) > 0 /\ s.history[1].is_injection
    THEN apply_influence_shader(s.history[1].content, s.history[1].influence_weight)
    ELSE NoInstruction

\* the injection_instruction trigger_next_turn puts into the prompt
injection_instruction(s) ==
    IF Len(s.history) > 0 /\ s.history[Len(s.history)].is_injection
    THEN apply_influence_shader(s.history[Len(s.history)].content,
                                s.history[Len(s.history)].influence_weight)
    ELSE NoInstruction

\* the worker trigger_next_turn builds: the agent its callback is bound to
\* and the instruction segment of its prompt
OpenRouterWorker(s) ==
    [agent |-> get_current_agent(s), instruction |-> injection_instruction(s)]

\* a trigger that does not look at the delay lock
DispatchesUnlocked(s, lock) ==
    /\ s.status = "RUNNING"
    /\ get_current_agent(s) # None
    /\ api_key

\* a trigger that starts a worker without a key
DispatchesKeyless(s, lock) ==
    /\ s.status = "RUNNING"
    /\ ~lock
    /\ get_current_agent(s) # None

\* a trigger that does not look at the status
DispatchesAnyStatus(s, lock) ==
    /\ ~lock
    /\ get_current_agent(s) # None
    /\ api_key

\* trigger_next_turn gets as far as thread_pool.start(worker)
Dispatches(s, lock) ==
    /\ s.status = "RUNNING"
    /\ ~lock
    /\ get_current_agent(s) # None
    /\ api_key

\* in_flight after trigger_next_turn ran in engine state s with the lock as given
trigger_next_turn(s, lock, flight) ==
    IF Dispatches(s, lock) THEN Append(flight, OpenRouterWorker(s)) ELSE flight

\* an injection that never resumes
ForcesResumeNever(s) == FALSE

\* on_injection's 'if self.engine.state.status == "PAUSED"'
ForcesResume(s) == s.status = "PAUSED"

\* a result handler without the status check
AcceptsResultAlways(s) == TRUE

\* handle_turn_complete goes past its 'if self.engine.state.status != "RUNNING": return'
AcceptsResult(s) == s.status = "RUNNING"

RemoveAt(seq, k) == SubSeq(seq, 1, k - 1) \o SubSeq(seq, k + 1, Len(seq))

\* the longest history followed: an undisturbed run ends by itself after
\* one reply per agent and round
HistoryCap == IF mode = "run" THEN MaxAgents * MaxRounds ELSE MaxHistory

WithinBounds ==
    /\ Len(in_flight') <= MaxWorkers
    /\ BagCardinality(timers') <= MaxTimers

\* a dispatch ends the wait for the prompt that follows an injection
Awaiting == awaited' = IF Len(in_flight') > Len(in_flight) THEN NoInstruction ELSE awaited

\* app.py: on_debate_started calls start_debate once; a ValueError of
\* engine.start() leaves the slot and nothing was started
start_debate ==
    /\ ~started
    /\ IF start_raises(state)
       THEN /\ state' = state
            /\ Track("start_debate:ValueError")
            /\ UNCHANGED <<clock, ctrlVars, api_key, mode, auxVars, testVars, workerVars, awaited>>
       ELSE /\ state' = start(state)
            /\ in_flight' = trigger_next_turn(state', is_waiting_delay, in_flight)
            /\ started' = TRUE
            /\ Track("start_debate")
            /\ UNCHANGED <<clock, is_waiting_delay, timers, btn_pause, api_key, mode, auxVars, testVars, workerVars>>
            /\ Awaiting

\* main_window.py toggle_pause, button now checked: pause_requested
on_pause ==
    /\ started
    /\ ~btn_pause
    /\ btn_pause' = TRUE
    /\ state' = pause(state)
    /\ Track("on_pause")
    /\ UNCHANGED <<clock, is_waiting_delay, in_flight, timers, started, api_key, mode, auxVars, testVars, workerVars, awaited>>

\* main_window.py toggle_pause, button now unchecked: resume_requested
on_resume ==
    /\ started
    /\ btn_pause
    /\ btn_pause' = FALSE
    /\ state' = resume(state)
    /\ in_flight' = trigger_next_turn(state', is_waiting_delay, in_flight)
    /\ Track("on_resume")
    /\ UNCHANGED <<clock, is_waiting_delay, timers, started, api_key, mode, auxVars, testVars, workerVars>>
    /\ Awaiting
    /\ WithinBounds

\* director.py on_inject: the slider's weight, a non-empty content
on_injection ==
    /\ started
    /\ Len(state.history) < MaxHistory
    /\ \E content \in InjectContents, weight \in SliderWeights :
          LET injected == inject_message(state, content, weight, clock)
          IN /\ IF ForcesResume(injected)
                THEN state' = resume(injected) /\ btn_pause' = FALSE
                ELSE state' = injected /\ btn_pause' = btn_pause
             /\ TrackArg("on_injection",
                         [content |-> content, weight |-> weight, status |-> state.status])
    /\ clock' = clock + 1
    /\ timers' = timers (+) SetToBag({Timer("settle", SettleTicks)})
    /\ awaited' = IF mode = "directed" /\ state.status = "RUNNING"
                  THEN injection_instruction(state') ELSE NoInstruction
    /\ UNCHANGED <<is_waiting_delay, in_flight, started, api_key, mode, auxVars, testVars, workerVars>>
    /\ WithinBounds

\* worker.signals.result delivered on the control thread
handle_turn_complete ==
    /\ \E k \in 1..Len(in_flight), content \in ReplyContents :
          LET agent == in_flight[k].agent
              appended == append_message(
                  state, Message(agent.id, agent.name, "assistant", content, 0, FALSE, clock),
                  clock)
              advanced == advance_turn(appended)
          IN /\ in_flight' = RemoveAt(in_flight, k)
             /\ IF ~AcceptsResult(state)
                THEN /\ state' = state
                     /\ UNCHANGED <<clock, is_waiting_delay, timers>>
                     /\ Track("handle_turn_complete:ignored")
                ELSE /\ Len(state.history) < HistoryCap
                     /\ state' = advanced
                     /\ clock' = clock + 1
                     /\ IF advanced.status = "COMPLETED"
                        THEN UNCHANGED <<is_waiting_delay, timers>>
                        ELSE /\ is_waiting_delay' = TRUE
                             /\ timers' = timers (+) SetToBag({Timer("pacing", PacingTicks)})
                     /\ Track("handle_turn_complete")
    /\ UNCHANGED <<btn_pause, started, api_key, mode, auxVars, testVars, workerVars, awaited>>
    /\ WithinBounds

\* an error handler that also moves on to the next agent
handle_error_skipping ==
    /\ \E k \in 1..Len(in_flight) : in_flight' = RemoveAt(in_flight, k)
    /\ state' = pause(advance_turn(state))
    /\ btn_pause' = TRUE
    /\ TrackArg("handle_error", [status |-> state.status])
    /\ UNCHANGED <<clock, is_waiting_delay, timers, started, api_key, mode, auxVars, testVars, workerVars, awaited>>

\* worker.signals.error delivered on the control thread
handle_error ==
    /\ \E k \in 1..Len(in_flight) : in_flight' = RemoveAt(in_flight, k)
    /\ state' = pause(state)
    /\ btn_pause' = TRUE
    /\ TrackArg("handle_error", [status |-> state.status])
    /\ UNCHANGED <<clock, is_waiting_delay, timers, started, api_key, mode, auxVars, testVars, workerVars, awaited>>

\* 500 ms pass: no timer is overdue, every pending timer comes one tick closer
Tick ==
    /\ timers # EmptyBag
    /\ \A t \in BagToSet(timers) : t.due > 0
    /\ timers' = [ t \in { Timer(u.kind, u.due - 1) : u \in BagToSet(timers) } |->
                     timers[Timer(t.kind, t.due + 1)] ]
    /\ state' = state
    /\ Track("tick")
    /\ UNCHANGED <<clock, is_waiting_delay, in_flight, btn_pause, started,
                   api_key, mode, auxVars, testVars, workerVars, awaited>>

\* QTimer.singleShot(500, self.trigger_next_turn) fires
settle_timeout ==
    /\ BagIn(Timer("settle", 0), timers)
    /\ timers' = timers (-) SetToBag({Timer("settle", 0)})
    /\ in_flight' = trigger_next_turn(state, is_waiting_delay, in_flight)
    /\ state' = state
    /\ Track("settle_timeout")
    /\ UNCHANGED <<clock, is_waiting_delay, btn_pause, started, api_key, mode, auxVars, testVars, workerVars>>
    /\ Awaiting
    /\ WithinBounds

\* a pacing callback that frees the lock only in a running session
release_lock_and_trigger_if_running ==
    /\ BagIn(Timer("pacing", 0), timers)
    /\ timers' = timers (-) SetToBag({Timer("pacing", 0)})
    /\ is_waiting_delay' = (is_waiting_delay /\ state.status # "RUNNING")
    /\ in_flight' = trigger_next_turn(state, is_waiting_delay', in_flight)
    /\ state' = state
    /\ Track("release_lock_and_trigger")
    /\ UNCHANGED <<clock, btn_pause, started, api_key, mode, auxVars, testVars, workerVars>>
    /\ Awaiting
    /\ WithinBounds

\* QTimer.singleShot(delay_ms, release_lock_and_trigger) fires
release_lock_and_trigger ==
    /\ BagIn(Timer("pacing", 0), timers)
    /\ timers' = timers (-) SetToBag({Timer("pacing", 0)})
    /\ is_waiting_delay' = FALSE
    /\ in_flight' = trigger_next_turn(state, FALSE, in_flight)
    /\ state' = state
    /\ Track("release_lock_and_trigger")
    /\ UNCHANGED <<clock, btn_pause, started, api_key, mode, auxVars, testVars, workerVars>>
    /\ Awaiting
    /\ WithinBounds

Next ==
    \/ start_debate
    \/ on_pause
    \/ on_resume
    \/ on_injection
    \/ handle_turn_complete
    \/ handle_error
    \/ Tick
    \/ settle_timeout
    \/ release_lock_and_trigger

Init == InitState /\ mode = "interactive"

Spec == Init /\ [][Next]_vars

\* the same controller, with each injection followed up to the next dispatch
InitDirected == InitState /\ mode = "directed"

DirectedSpec == InitDirected /\ [][Next]_vars

\* the controller left alone after the start: no pause, resume or injection
\* from the window, no worker that fails; the Qt event loop delivers every
\* result signal and fires every timer that is due
NextRun ==
    \/ start_debate
    \/ handle_turn_complete
    \/ Tick
    \/ release_lock_and_trigger

InitRun == InitState /\ mode = "run"

RunSpec ==
    /\ InitRun
    /\ [][NextRun]_vars
    /\ WF_vars(handle_turn_complete)
    /\ WF_vars(Tick)
    /\ WF_vars(release_lock_and_trigger)

----------------------------------------------------------------------------
(* The engine under its controller or under a direct caller *)

InitAll == InitState /\ mode \in {"interactive", "headless"}

NextAll ==
    \/ mode = "interactive" /\ Next
    \/ mode = "headless" /\ NextEngine

SpecAll == InitAll /\ [][NextAll]_vars

----------------------------------------------------------------------------
(* test_wp1.py: start, then one append_message and one advance_turn per
   turn, for as many turns as the roster and max_rounds make *)

TurnsTotal == Len(state.agents) * state.max_rounds

test_start ==
    /\ pc = "start"
    /\ IF start_raises(state)
       THEN state' = state /\ pc' = "failed" /\ Track("start:ValueError")
       ELSE state' = start(state) /\ pc' = "append" /\ Track("start")
    /\ UNCHANGED <<clock, ctrlVars, api_key, mode, auxVars, turn, workerVars, awaited>>

test_append ==
    /\ pc = "append"
    /\ turn < TurnsTotal
    /\ \E message \in MessageInputs(clock) :
          state' = append_message(state, message, clock)
    /\ clock' = clock + 1
    /\ pc' = "advance"
    /\ Track("append_message")
    /\ UNCHANGED <<ctrlVars, api_key, mode, auxVars, turn, workerVars, awaited>>

test_advance ==
    /\ pc = "advance"
    /\ state' = advance_turn(state)
    /\ turn' = turn + 1
    /\ pc' = "append"
    /\ Track("advance_turn")
    /\ UNCHANGED <<clock, ctrlVars, api_key, mode, auxVars, workerVars, awaited>>

test_done ==
    /\ pc = "append"
    /\ turn = TurnsTotal
    /\ pc' = "done"
    /\ state' = state
    /\ Track("done")
    /\ UNCHANGED <<clock, ctrlVars, api_key, mode, auxVars, turn, workerVars, awaited>>

NextScenario ==
    \/ test_start
    \/ test_append
    \/ test_advance
    \/ test_done

InitScenario == InitState /\ mode = "test"

ScenarioSpec == InitScenario /\ [][NextScenario]_vars

----------------------------------------------------------------------------
(* workers.py: one OpenRouterWorker.run on its pool thread. Text is a
   sequence of characters, so that += is concatenation *)

MaxChunks == 2

Fragments == { << >>, <<"a">>, <<"b", "c">> }

Signal(name, arg) == [name |-> name, arg |-> arg]

TokensEmitted == Cardinality({ k \in 1..Len(signals) : signals[k].name = "token_received" })

run_started ==
    /\ worker_pc = "created"
    /\ signals' = Append(signals, Signal("started", << >>))
    /\ worker_pc' = "try"
    /\ state' = state
    /\ Track("run:started")
    /\ UNCHANGED <<clock, ctrlVars, api_key, mode, auxVars, testVars, full_content, awaited>>

\* client.chat.completions.create returned a stream
run_create ==
    /\ worker_pc = "try"
    /\ worker_pc' = "stream"
    /\ full_content' = << >>
    /\ state' = state
    /\ Track("run:create")
    /\ UNCHANGED <<clock, ctrlVars, api_key, mode, auxVars, testVars, signals, awaited>>

\* a chunk whose token is shown but not kept
run_chunk_dropping ==
    /\ worker_pc = "stream"
    /\ TokensEmitted < MaxChunks
    /\ \E has_content \in BOOLEAN, token \in Fragments :
          IF has_content
          THEN /\ full_content' = full_content
               /\ signals' = Append(signals, Signal("token_received", token))
          ELSE UNCHANGED <<full_content, signals>>
    /\ state' = state
    /\ Track("run:chunk")
    /\ UNCHANGED <<clock, ctrlVars, api_key, mode, auxVars, testVars, worker_pc, awaited>>

\* one chunk of the stream: a chunk without content is passed over
run_chunk ==
    /\ worker_pc = "stream"
    /\ TokensEmitted < MaxChunks
    /\ \E has_content \in BOOLEAN, token \in Fragments :
          IF has_content
          THEN /\ full_content' = full_content \o token
               /\ signals' = Append(signals, Signal("token_received", token))
          ELSE UNCHANGED <<full_content, signals>>
    /\ state' = state
    /\ Track("run:chunk")
    /\ UNCHANGED <<clock, ctrlVars, api_key, mode, auxVars, testVars, worker_pc, awaited>>

\* a result that the worker writes into the session itself
run_result_appending ==
    /\ worker_pc = "stream"
    /\ signals' = Append(signals, Signal("result", full_content))
    /\ worker_pc' = "finally"
    /\ state' = append_message(
                    state, Message("worker", "Worker", "assistant", full_content, 0, FALSE, clock),
                    clock)
    /\ Track("run:result")
    /\ UNCHANGED <<clock, ctrlVars, api_key, mode, auxVars, testVars, full_content, awaited>>

\* the stream is exhausted
run_result ==
    /\ worker_pc = "stream"
    /\ signals' = Append(signals, Signal("result", full_content))
    /\ worker_pc' = "finally"
    /\ state' = state
    /\ Track("run:result")
    /\ UNCHANGED <<clock, ctrlVars, api_key, mode, auxVars, testVars, full_content, awaited>>

\* an exception anywhere in the try block
run_except ==
    /\ worker_pc \in {"try", "stream"}
    /\ signals' = Append(signals, Signal("error", <<"e">>))
    /\ worker_pc' = "finally"
    /\ state' = state
    /\ Track("run:except")
    /\ UNCHANGED <<clock, ctrlVars, api_key, mode, auxVars, testVars, full_content, awaited>>

run_finished ==
    /\ worker_pc = "finally"
    /\ signals' = Append(signals, Signal("finished", << >>))
    /\ worker_pc' = "returned"
    /\ state' = state
    /\ Track("run:finished")
    /\ UNCHANGED <<clock, ctrlVars, api_key, mode, auxVars, testVars, full_content, awaited>>

run ==
    \/ run_started
    \/ run_create
    \/ run_chunk
    \/ run_result
    \/ run_except
    \/ run_finished

InitWorker == InitState /\ mode = "worker"

WorkerSpec == InitWorker /\ [][run]_vars

----------------------------------------------------------------------------
(* prompt_engine.py: apply_influence_shader called on its own *)

\* everything a helper called on its own leaves alone
sessionVars == <<clock, ctrlVars, api_key, mode, testVars, workerVars, awaited>>

Shade ==
    /\ \E content \in {"stop", "go"}, weight \in 0..100 \cup BadWeights :
          /\ args' = [content |-> content, weight |-> weight]
          /\ result' = apply_influence_shader(content, weight)
    /\ state' = state
    /\ Track("apply_influence_shader")
    /\ UNCHANGED <<sessionVars, file, backoffVars, batchVars>>

NextShader == Shade

InitShader == InitIdle /\ mode = "shader"

ShaderSpec == InitShader /\ [][NextShader]_vars

----------------------------------------------------------------------------
(* engine.py get_context_for_current_turn and utils.py prune_history, called
   on histories of every length up to MaxWindow with every limit up to MaxLimit *)

MaxWindow == 3
MaxLimit == 4

\* seq[-k:] for k >= 0: -0 is 0, so seq[-0:] is seq[0:], the whole of seq
PySuffix(seq, k) ==
    IF k = 0 THEN seq
    ELSE SubSeq(seq, (IF Len(seq) > k THEN Len(seq) - k ELSE 0) + 1, Len(seq))

\* recent_msgs of get_context_for_current_turn
recent_msgs(history, history_limit) ==
    IF Len(history) > history_limit THEN PySuffix(history, history_limit) ELSE history

\* the transcript: one "sender_name: content" paragraph per message
transcript(msgs) ==
    [k \in 1..Len(msgs) |-> <<msgs[k].sender_name, msgs[k].content>>]

get_context_for_current_turn(s, history_limit) ==
    transcript(recent_msgs(s.history, history_limit))

prune_history(history, max_utts) ==
    IF Len(history) <= max_utts THEN history ELSE PySuffix(history, max_utts)

SeqsUpTo(S, n) == UNION { [1..m -> S] : m \in 0..n }

\* messages of an interactive history, told apart by their content
WindowMessages ==
    { Message("optimist", "Optimist", "assistant", c, 0, FALSE, 0) : c \in {"m1", "m2", "m3"} }

\* utterances of a batch history
WindowUtterances ==
    { [sender |-> "Optimist", content |-> c, ts |-> 0] : c \in {"u1", "u2", "u3"} }

GetContext ==
    /\ \E history \in SeqsUpTo(WindowMessages, MaxWindow), history_limit \in 0..MaxLimit :
          /\ args' = [history |-> history, limit |-> history_limit]
          /\ state' = [state EXCEPT !.history = history]
          /\ result' = get_context_for_current_turn(state', history_limit)
    /\ Track("get_context_for_current_turn")
    /\ UNCHANGED <<sessionVars, file, backoffVars, batchVars>>

PruneHistory ==
    /\ \E history \in SeqsUpTo(WindowUtterances, MaxWindow), max_utts \in 0..MaxLimit :
          /\ args' = [history |-> history, limit |-> max_utts]
          /\ result' = prune_history(history, max_utts)
    /\ state' = state
    /\ Track("prune_history")
    /\ UNCHANGED <<sessionVars, file, backoffVars, batchVars>>

NextWindow ==
    \/ GetContext
    \/ PruneHistory

InitWindow == InitIdle /\ mode = "window"

WindowSpec == InitWindow /\ [][NextWindow]_vars

----------------------------------------------------------------------------
(* utils.py: exponential_backoff. Delays are in seconds; func returns, or
   raises an exception of a class in `exceptions`, or raises another one *)

MaxTries == 3
MaxDelay == 3

Running == [status |-> "running"]
Returned(value) == [status |-> "returned", value |-> value]
\* the exception of the call numbered `call`, propagating out of the helper
Raised(class, call) == [status |-> "raised", class |-> class, call |-> call]

\* a loop that gives up one failure later
GivesUpLate(t, max_tries) == t > max_tries

\* "if tries >= max_tries: raise"
GivesUp(t, max_tries) == t >= max_tries

\* one pass of the while loop: tries += 1, the call, and what follows it
backoff_pass(max_tries, outcome, value) ==
    /\ tries' = tries + 1
    /\ IF outcome = "returns"
       THEN result' = Returned(value) /\ UNCHANGED <<delay, waits>>
       ELSE IF outcome = "raises_other" \/ GivesUp(tries', max_tries)
            THEN result' = Raised(outcome, tries') /\ UNCHANGED <<delay, waits>>
            ELSE /\ waits' = Append(waits, delay)
                 /\ delay' = delay * 2
                 /\ result' = Running

\* exponential_backoff(func, max_tries=..., initial_delay=...) is entered
BackoffEnter ==
    /\ result = NoArg
    /\ \E max_tries \in 0..MaxTries, initial_delay \in 0..MaxDelay :
          /\ args' = [max_tries |-> max_tries, initial_delay |-> initial_delay]
          /\ delay' = initial_delay
    /\ tries' = 0
    /\ waits' = << >>
    /\ result' = Running
    /\ state' = state
    /\ Track("exponential_backoff")
    /\ UNCHANGED <<sessionVars, file, batchVars>>

BackoffPass ==
    /\ result = Running
    /\ \E outcome \in {"returns", "raises", "raises_other"}, value \in {"r1", "r2"} :
          /\ backoff_pass(args.max_tries, outcome, value)
          /\ state' = state
          /\ TrackArg("backoff_pass", [outcome |-> outcome])
    /\ UNCHANGED <<sessionVars, file, batchVars, args>>

NextBackoff ==
    \/ BackoffEnter
    \/ BackoffPass

InitBackoff == InitIdle /\ mode = "backoff"

BackoffSpec == InitBackoff /\ [][NextBackoff]_vars

----------------------------------------------------------------------------
(* main.py: run_debate, the batch driver, and the shutdown flag. The function
   is followed from one blocking call (model call, input(), sleep) or loop
   test to the next. agent_index counts from 1, round_index is `r`. *)

MaxBatchRounds == 2
ModelMaxTries == 3
DefaultInitialDelay == 1
DefaultQueryDelay == 5
DefaultStopOnRepeat == 2

BatchRosters ==
    { << >>,
      << [id |-> "a1", name |-> "Alice"] >>,
      << [id |-> "a1", name |-> "Alice"], [id |-> "a2", name |-> "Bob"] >>,
      << [id |-> "user", name |-> "You"], [id |-> "a1", name |-> "Alice"] >> }

\* what a model may answer, and what the operator may type
Replies == {"x", "Alice: x"}
TypedTurns == {"", "x"}
PromptInputs == {"", "q", "u:", "u:y"}

\* "max_rounds or cfg...get('rounds', 50)"; None and 0 are both falsy
rounds_total(max_rounds, conf_rounds) ==
    IF max_rounds # 0 THEN max_rounds ELSE conf_rounds

\* the leading role tag is removed, the rest kept
sanitize_reply(text) == IF text = "Alice: x" THEN "x" ELSE text

\* SequenceMatcher(None, a, b).ratio() in hundredths, for these contents
similar(a, b) == IF a = b THEN 100 ELSE 0
repeat_similarity_threshold == 88

\* user_in.lower() == 'q'
IsQuit(user_in) == user_in = "q"

\* user_in.split(':', 1)[1].strip() when user_in starts with 'u:', else ''
InjectedMessage(user_in) == IF user_in = "u:y" THEN "y" ELSE ""

Utterance(sender, content) == [sender |-> sender, content |-> content]

LogRecord(r, agent_id, agent_name, content, model) ==
    [round |-> r + 1, agent_id |-> agent_id, agent_name |-> agent_name,
     content |-> content, model |-> model]

CurrentAgent == cfg.agents[agent_index]

turn_obj(content) ==
    LogRecord(round_index, CurrentAgent.id, CurrentAgent.name, content, "m")

\* a flag test that never sees the flag
is_set_never(event) == FALSE

\* _shutdown_event.is_set()
is_set(event) == event

\* a failure that leaves no trace in the log
safe_append_json_dropping(log, obj) == log

\* safe_append_json(log_file, obj)
safe_append_json(log, obj) == Append(log, obj)

\* history[-(stop_on_repeat+1):-1] if len(history) >= stop_on_repeat+1 else []
recent(history, stop_on_repeat) ==
    IF Len(history) >= stop_on_repeat + 1
    THEN SubSeq(history, Len(history) - stop_on_repeat, Len(history) - 1)
    ELSE << >>

similar_count(history, stop_on_repeat, reply) ==
    Cardinality({i \in 1..Len(recent(history, stop_on_repeat)) :
        similar(recent(history, stop_on_repeat)[i].content, reply)
            >= repeat_similarity_threshold})

Repeats(history, stop_on_repeat, reply) ==
    /\ stop_on_repeat > 0
    /\ similar_count(history, stop_on_repeat, reply) >= stop_on_repeat

\* "if delay and delay > 0: delay_with_countdown(delay)", then the next agent
PaceOrNext ==
    IF cfg.delay > 0
    THEN batch_pc' = "delay" /\ UNCHANGED agent_index
    ELSE batch_pc' = "agent" /\ agent_index' = agent_index + 1

\* lines 168-218 up to the first blocking call: the turn is logged, the
\* history updated and the stopping rule applied
turn_logged(reply) ==
    /\ reply_text' = reply
    /\ log_file' = safe_append_json(log_file, turn_obj(reply))
    /\ batch_history' = Append(batch_history, Utterance(CurrentAgent.name, reply))
    /\ IF Repeats(batch_history', cfg.stop_on_repeat, reply)
       THEN /\ shutdown_event' = TRUE
            /\ batch_pc' = "round_end"
            /\ UNCHANGED agent_index
       ELSE /\ UNCHANGED shutdown_event
            /\ IF cfg.interactive
               THEN batch_pc' = "prompt" /\ UNCHANGED agent_index
               ELSE PaceOrNext

run_debate ==
    /\ batch_pc = "entry"
    /\ \E agents \in BatchRosters, max_rounds \in 0..MaxBatchRounds,
          conf_rounds \in 0..MaxBatchRounds, interactive \in BOOLEAN,
          stop_on_repeat \in {0, 1, DefaultStopOnRepeat},
          query_delay \in {0, DefaultQueryDelay}, seed \in {"", "x"} :
          /\ cfg' = [agents |-> agents,
                     rounds_total |-> rounds_total(max_rounds, conf_rounds),
                     interactive |-> interactive,
                     stop_on_repeat |-> stop_on_repeat,
                     delay |-> query_delay]
          /\ batch_history' = IF seed # "" THEN <<Utterance("User", seed)>> ELSE << >>
    /\ log_file' = << >>
    /\ round_index' = 0
    /\ batch_pc' = "round"
    /\ state' = state
    /\ Track("run_debate")
    /\ UNCHANGED <<sessionVars, file, backoffVars, callVars, agent_index,
                   reply_text, shutdown_event>>

\* "for r in range(rounds_total)" and the test of the flag that opens a round
RoundCheck ==
    /\ batch_pc = "round"
    /\ IF round_index >= cfg.rounds_total \/ is_set(shutdown_event)
       THEN batch_pc' = "done" /\ UNCHANGED agent_index
       ELSE batch_pc' = "agent" /\ agent_index' = 1
    /\ state' = state
    /\ Track("round_check")
    /\ UNCHANGED <<sessionVars, file, backoffVars, callVars, cfg, round_index,
                   batch_history, log_file, reply_text, shutdown_event>>

\* "for agent in agents", the test of the flag that opens a turn, and the
\* turn up to its first blocking call
AgentCheck ==
    /\ batch_pc = "agent"
    /\ IF agent_index > Len(cfg.agents) \/ is_set(shutdown_event)
       THEN batch_pc' = "round_end" /\ UNCHANGED <<backoffVars, result>>
       ELSE IF CurrentAgent.id = "user"
            THEN batch_pc' = "input" /\ UNCHANGED <<backoffVars, result>>
            ELSE /\ batch_pc' = "call"
                 /\ tries' = 0
                 /\ delay' = DefaultInitialDelay
                 /\ waits' = << >>
                 /\ result' = Running
    /\ state' = state
    /\ Track("agent_check")
    /\ UNCHANGED <<sessionVars, file, args, cfg, round_index, agent_index,
                   batch_history, log_file, reply_text, shutdown_event>>

\* one call of the model inside exponential_backoff, and what run_debate
\* does when the helper returns or raises
CallModel ==
    /\ batch_pc = "call"
    /\ \E outcome \in {"returns", "raises"}, value \in Replies :
          /\ backoff_pass(ModelMaxTries, outcome, value)
          /\ IF result' = Running
             THEN /\ UNCHANGED <<batch_pc, agent_index, batch_history,
                                 log_file, reply_text, shutdown_event>>
                  /\ state' = state
                  /\ TrackArg("call_model", [outcome |-> "retry"])
             ELSE IF result'.status = "returned"
                  THEN /\ turn_logged(sanitize_reply(result'.value))
                       /\ state' = state
                       /\ TrackArg("call_model", [outcome |-> "replied"])
                  ELSE /\ log_file' = safe_append_json(log_file, turn_obj("<ERROR>"))
                       /\ batch_pc' = "agent"
                       /\ agent_index' = agent_index + 1
                       /\ UNCHANGED <<batch_history, reply_text, shutdown_event>>
                       /\ state' = state
                       /\ TrackArg("call_model", [outcome |-> "failed"])
    /\ UNCHANGED <<sessionVars, file, args, cfg, round_index>>

\* the turn of the agent with id 'user': input() instead of a model call
UserTurn ==
    /\ batch_pc = "input"
    /\ \E user_msg \in TypedTurns :
          turn_logged(IF user_msg # "" THEN user_msg ELSE "(user skipped)")
    /\ state' = state
    /\ Track("user_turn")
    /\ UNCHANGED <<sessionVars, file, backoffVars, callVars, cfg, round_index>>

\* the interactive prompt after a turn
Prompt ==
    /\ batch_pc = "prompt"
    /\ \E user_in \in PromptInputs :
          IF IsQuit(user_in)
          THEN /\ shutdown_event' = TRUE
               /\ batch_pc' = "round_end"
               /\ UNCHANGED <<agent_index, batch_history, log_file>>
          ELSE /\ IF InjectedMessage(user_in) # ""
                  THEN /\ batch_history' = Append(batch_history,
                              Utterance("User", InjectedMessage(user_in)))
                       /\ log_file' = safe_append_json(log_file,
                              LogRecord(round_index, "user", "User",
                                        InjectedMessage(user_in), "None"))
                  ELSE UNCHANGED <<batch_history, log_file>>
               /\ PaceOrNext
               /\ UNCHANGED shutdown_event
    /\ state' = state
    /\ Track("prompt")
    /\ UNCHANGED <<sessionVars, file, backoffVars, callVars, cfg, round_index,
                   reply_text>>

\* delay_with_countdown(delay) returns
Delay ==
    /\ batch_pc = "delay"
    /\ batch_pc' = "agent"
    /\ agent_index' = agent_index + 1
    /\ state' = state
    /\ Track("delay_with_countdown")
    /\ UNCHANGED <<sessionVars, file, backoffVars, callVars, cfg, round_index,
                   batch_history, log_file, reply_text, shutdown_event>>

\* a round that is started over when it ends
RoundEndRepeating ==
    /\ batch_pc = "round_end"
    /\ IF is_set(shutdown_event)
       THEN batch_pc' = "done" /\ UNCHANGED round_index
       ELSE batch_pc' = "round" /\ round_index' = round_index
    /\ state' = state
    /\ Track("round_end")
    /\ UNCHANGED <<sessionVars, file, backoffVars, callVars, cfg, agent_index,
                   batch_history, log_file, reply_text, shutdown_event>>

\* the test of the flag that closes a round
RoundEnd ==
    /\ batch_pc = "round_end"
    /\ IF is_set(shutdown_event)
       THEN batch_pc' = "done" /\ UNCHANGED round_index
       ELSE batch_pc' = "round" /\ round_index' = round_index + 1
    /\ state' = state
    /\ Track("round_end")
    /\ UNCHANGED <<sessionVars, file, backoffVars, callVars, cfg, agent_index,
                   batch_history, log_file, reply_text, shutdown_event>>

\* SIGINT or SIGTERM arrives, at any point of the run
signal_handler ==
    /\ batch_pc # "done"
    /\ ~shutdown_event
    /\ shutdown_event' = TRUE
    /\ state' = state
    /\ Track("signal_handler")
    /\ UNCHANGED <<sessionVars, file, backoffVars, callVars, cfg, batch_pc,
                   round_index, agent_index, batch_history, log_file, reply_text>>

NextBatch ==
    \/ run_debate
    \/ RoundCheck
    \/ AgentCheck
    \/ CallModel
    \/ UserTurn
    \/ Prompt
    \/ Delay
    \/ RoundEnd
    \/ signal_handler

InitBatch == InitIdle /\ mode = "batch"

BatchSpec == InitBatch /\ [][NextBatch]_vars

----------------------------------------------------------------------------
(* models.py: to_json / from_json; engine.py: save_to_file / load_from_file.
   A JSON document is a tree: a string, number or boolean leaf, an array
   (a sequence) or an object (a record whose fields are the keys present).
   Weights are written in hundredths. *)

\* a JSON value of a kind ("str", "num", "bool", "arr", "obj"): j.str, j.num, ...
J(kind, v) == [k \in {kind} |-> v]
Is(j, kind) == DOMAIN j = {kind}

Has(o, key) == key \in DOMAIN o
Without(o, key) == [k \in DOMAIN o \ {key} |-> o[k]]

Roles == {"system", "user", "assistant"}
Statuses == {"IDLE", "RUNNING", "PAUSED", "COMPLETED"}

dump_agent(a) == J("obj", [id |-> J("str", a.id), name |-> J("str", a.name)])

\* a dump that leaves out the injection mark
dump_message_unmarked(m) ==
    J("obj", [timestamp |-> J("str", m.timestamp),
          sender_id |-> J("str", m.sender_id),
          sender_name |-> J("str", m.sender_name),
          role |-> J("str", m.role),
          content |-> J("str", m.content),
          influence_weight |-> J("num", m.influence_weight)])

dump_message(m) ==
    J("obj", [timestamp |-> J("str", m.timestamp),
          sender_id |-> J("str", m.sender_id),
          sender_name |-> J("str", m.sender_name),
          role |-> J("str", m.role),
          content |-> J("str", m.content),
          influence_weight |-> J("num", m.influence_weight),
          is_injection |-> J("bool", m.is_injection)])

\* model_dump_json: every field of the model, nested models included
to_json(s) ==
    J("obj", [topic |-> J("str", s.topic),
          agents |-> J("arr", [i \in 1..Len(s.agents) |-> dump_agent(s.agents[i])]),
          history |-> J("arr", [i \in 1..Len(s.history) |-> dump_message(s.history[i])]),
          status |-> J("str", s.status),
          current_turn_index |-> J("num", s.current_turn_index),
          rounds_completed |-> J("num", s.rounds_completed),
          max_rounds |-> J("num", s.max_rounds),
          last_updated |-> J("str", s.last_updated)])

\* a key that may be absent: present keys must hold a value of the field's type
Optional(o, key, kind) == Has(o, key) => Is(o[key], kind)
Required(o, key, kind) == Has(o, key) /\ Is(o[key], kind)

AgentConfigValid(j) ==
    /\ Is(j, "obj")
    /\ Required(j.obj, "id", "str")
    /\ Required(j.obj, "name", "str")

MessageValid(j) ==
    /\ Is(j, "obj")
    /\ Optional(j.obj, "timestamp", "str")
    /\ Required(j.obj, "sender_id", "str")
    /\ Required(j.obj, "sender_name", "str")
    /\ Required(j.obj, "role", "str")
    /\ j.obj.role.str \in Roles
    /\ Required(j.obj, "content", "str")
    /\ Optional(j.obj, "influence_weight", "num")
    /\ Has(j.obj, "influence_weight") => WeightValid(j.obj.influence_weight.num)
    /\ Optional(j.obj, "is_injection", "bool")

DebateStateValid(j) ==
    /\ Is(j, "obj")
    /\ Optional(j.obj, "topic", "str")
    /\ Optional(j.obj, "agents", "arr")
    /\ Has(j.obj, "agents") =>
          \A i \in 1..Len(j.obj.agents.arr) : AgentConfigValid(j.obj.agents.arr[i])
    /\ Optional(j.obj, "history", "arr")
    /\ Has(j.obj, "history") =>
          \A i \in 1..Len(j.obj.history.arr) : MessageValid(j.obj.history.arr[i])
    /\ Optional(j.obj, "status", "str")
    /\ Has(j.obj, "status") => j.obj.status.str \in Statuses
    /\ Optional(j.obj, "current_turn_index", "num")
    /\ Optional(j.obj, "rounds_completed", "num")
    /\ Optional(j.obj, "max_rounds", "num")
    /\ Optional(j.obj, "last_updated", "str")

\* text that is not a JSON document at all, such as a file cut short
Unparseable == [unparseable |-> TRUE]

\* model_validate_json raises: the text is not JSON, or not a DebateState
from_json_raises(text) == text = Unparseable \/ ~DebateStateValid(text)

load_agent(o) == [id |-> o.id.str, name |-> o.name.str]

load_message(o, now) ==
    [ timestamp |-> IF Has(o, "timestamp") THEN o.timestamp.str ELSE now,
      sender_id |-> o.sender_id.str,
      sender_name |-> o.sender_name.str,
      role |-> o.role.str,
      content |-> o.content.str,
      influence_weight |->
          IF Has(o, "influence_weight") THEN o.influence_weight.num ELSE 0,
      is_injection |-> IF Has(o, "is_injection") THEN o.is_injection.bool ELSE FALSE ]

\* the model built from a valid document; absent keys take the field defaults
from_json(text, now) ==
    LET o == text.obj IN
    [ topic |-> IF Has(o, "topic") THEN o.topic.str ELSE "",
      agents |-> IF Has(o, "agents")
                 THEN [i \in 1..Len(o.agents.arr) |-> load_agent(o.agents.arr[i].obj)]
                 ELSE << >>,
      history |-> IF Has(o, "history")
                  THEN [i \in 1..Len(o.history.arr) |->
                            load_message(o.history.arr[i].obj, now)]
                  ELSE << >>,
      status |-> IF Has(o, "status") THEN o.status.str ELSE "IDLE",
      current_turn_index |->
          IF Has(o, "current_turn_index") THEN o.current_turn_index.num ELSE 0,
      rounds_completed |->
          IF Has(o, "rounds_completed") THEN o.rounds_completed.num ELSE 0,
      max_rounds |-> IF Has(o, "max_rounds") THEN o.max_rounds.num ELSE 50,
      last_updated |-> IF Has(o, "last_updated") THEN o.last_updated.str ELSE now ]

Written(text) == [exists |-> TRUE, text |-> text]

\* a load that starts from a fresh state and fills it in as it reads
load_from_file_resetting(s, f, now) ==
    IF ~f.exists \/ from_json_raises(f.text)
    THEN NewDebateState(now)
    ELSE from_json(f.text, now)

\* the engine's state after load_from_file: open() raises on a missing
\* file and from_json on a bad one, before self.state is assigned
load_from_file(s, f, now) ==
    IF ~f.exists \/ from_json_raises(f.text) THEN s ELSE from_json(f.text, now)

\* what may happen to a snapshot on disk between save and load
Damages == {"deleted", "cut_short", "other_document", "unknown_status",
            "no_content", "weight_out_of_range", "no_topic"}
Fatal == Damages \ {"no_topic"}

Damaged(f, kind) ==
    LET o == f.text.obj IN
    CASE kind = "deleted" -> NoFile
      [] kind = "cut_short" -> Written(Unparseable)
      [] kind = "other_document" -> Written(J("arr", <<J("str", "x")>>))
      [] kind = "unknown_status" -> Written(J("obj", [o EXCEPT !.status = J("str", "STOPPED")]))
      [] kind = "no_content" ->
            Written(J("obj", [o EXCEPT !.history =
                J("arr", [@.arr EXCEPT ![1] = J("obj", Without(@.obj, "content"))])]))
      [] kind = "weight_out_of_range" ->
            Written(J("obj", [o EXCEPT !.history =
                J("arr", [@.arr EXCEPT ![1] =
                    J("obj", [@.obj EXCEPT !.influence_weight = J("num", 150)])])]))
      [] kind = "no_topic" -> Written(J("obj", Without(o, "topic")))

\* the session is edited only until its snapshot is written; after that it
\* can still be paused, so that a load may find a state other than the saved one
Editing == file = NoFile /\ args = NoArg

InitializeDebate ==
    /\ Editing
    /\ state.agents = << >>
    /\ state.history = << >>
    /\ \E agents \in {SubSeq(AgentPool, 1, n) : n \in {1, 2}}, max_rounds \in {1} :
          state' = DebateState(agents, max_rounds, clock)
    /\ clock' = clock + 1
    /\ Track("initialize_debate")
    /\ UNCHANGED <<ctrlVars, api_key, mode, auxVars, testVars, workerVars, awaited>>

\* save_to_file; args remembers what was saved and what became of the file
SaveToFile ==
    /\ Editing
    /\ file' = Written(to_json(state))
    /\ args' = [saved |-> state, damage |-> "none", renewed |-> FALSE, loaded |-> FALSE]
    /\ state' = state
    /\ Track("save_to_file")
    /\ UNCHANGED <<sessionVars, result, backoffVars, batchVars>>

Damage ==
    /\ args # NoArg
    /\ args.damage = "none"
    /\ \E kind \in Damages :
          /\ kind \in {"no_content", "weight_out_of_range"} => Len(state.history) > 0
          /\ file' = Damaged(file, kind)
          /\ args' = [args EXCEPT !.damage = kind]
    /\ state' = state
    /\ Track("damage")
    /\ UNCHANGED <<sessionVars, result, backoffVars, batchVars>>

\* new_engine = DebateEngine()
NewEngine ==
    /\ args # NoArg
    /\ ~args.renewed
    /\ ~args.loaded
    /\ state' = NewDebateState(clock)
    /\ clock' = clock + 1
    /\ args' = [args EXCEPT !.renewed = TRUE]
    /\ Track("DebateEngine")
    /\ UNCHANGED <<ctrlVars, api_key, mode, result, file, backoffVars, batchVars,
                   testVars, workerVars, awaited>>

\* load_from_file, once per snapshot
LoadFromFile ==
    /\ args # NoArg => ~args.loaded
    /\ lastOp # "load_from_file:error"
    /\ state' = load_from_file(state, file, clock)
    /\ args' = IF args = NoArg THEN args ELSE [args EXCEPT !.loaded = TRUE]
    /\ IF ~file.exists \/ from_json_raises(file.text)
       THEN clock' = clock /\ Track("load_from_file:error")
       ELSE clock' = clock + 1 /\ Track("load_from_file")
    /\ UNCHANGED <<ctrlVars, api_key, mode, result, file, backoffVars, batchVars,
                   testVars, workerVars, awaited>>

NextSnapshot ==
    \/ InitializeDebate
    \/ Editing /\ AdvanceTurn
    \/ Editing /\ AppendMessage
    \/ Editing /\ InjectMessage
    \/ Editing /\ Start
    \/ Editing /\ Resume
    \/ Pause
    \/ SaveToFile
    \/ Damage
    \/ NewEngine
    \/ LoadFromFile

InitSnapshot == InitIdle /\ mode = "snapshot"

SnapshotSpec == InitSnapshot /\ [][NextSnapshot]_vars

----------------------------------------------------------------------------
(* models.py: Message(...) and AgentConfig(...) constructed by a caller, next
   to an engine that takes injections; result is the object built or the
   ValidationError raised *)

NewMessage ==
    /\ \E influence_weight \in {-10, 0, 100, 101} :
          /\ args' = [influence_weight |-> influence_weight]
          /\ result' = IF WeightValid(influence_weight)
                       THEN Message("optimist", "Optimist", "assistant", "reply",
                                    influence_weight, FALSE, clock)
                       ELSE [raised |-> "ValidationError"]
    /\ state' = state
    /\ Track("Message")
    /\ UNCHANGED <<sessionVars, file, backoffVars, batchVars>>

NewAgentConfig ==
    /\ \E temperature \in {-10, 0, 70, 200, 210} :
          /\ args' = [temperature |-> temperature]
          /\ result' = IF TemperatureValid(temperature)
                       THEN [id |-> "optimist", name |-> "Optimist",
                             temperature |-> temperature]
                       ELSE [raised |-> "ValidationError"]
    /\ state' = state
    /\ Track("AgentConfig")
    /\ UNCHANGED <<sessionVars, file, backoffVars, batchVars>>

NextModels ==
    \/ NewMessage
    \/ NewAgentConfig
    \/ Start
    \/ Pause
    \/ InjectMessage

InitModels == InitState /\ mode = "models"

ModelsSpec == InitModels /\ [][NextModels]_vars

----------------------------------------------------------------------------
(* Properties *)

AssistantCount(history) ==
    Cardinality({ k \in 1..Len(history) : history[k].role = "assistant" })

\* C1 (Spec): at most one completion worker is in flight at any time.
C1_AtMostOneInFlight == Len(in_flight) <= 1

\* C2 (EngineSpec): no scheduler operation changes status once it is COMPLETED
\* (stated for sessions with max_rounds >= 1, as the data model requires).
C2_CompletedTerminal ==
    [][(state.max_rounds >= 1 /\ state.status = "COMPLETED") =>
          state'.status = "COMPLETED"]_vars

\* C3 (Spec): once status has been COMPLETED, no step dispatches a worker,
\* appends an assistant message or moves the turn index (sessions with
\* max_rounds >= 1).
C3_QuietAfterCompleted ==
    [][(state.max_rounds >= 1 /\ completed_seen) =>
          /\ Len(in_flight') <= Len(in_flight)
          /\ AssistantCount(state'.history) = AssistantCount(state.history)
          /\ state'.current_turn_index = state.current_turn_index]_vars

\* C4 (EngineSpec): with a non-empty roster, 0 <= current_turn_index < len(agents)
\* in every reachable state.
C4_TurnIndexInRange ==
    Len(state.agents) > 0 =>
        /\ 0 <= state.current_turn_index
        /\ state.current_turn_index < Len(state.agents)

\* the index is back at the roster's last agent after a wrap
C4_Witness ==
    /\ lastOp = "advance_turn"
    /\ Len(state.agents) >= 2
    /\ state.current_turn_index = Len(state.agents) - 1
    /\ state.rounds_completed >= 1

\* C5 (EngineSpec): every advance_turn() on a roster of n >= 1 sets the index to
\* (index + 1) mod n and adds 1 to rounds_completed exactly when the index
\* wraps from n - 1 to 0.
C5_AdvanceCycles ==
    [][(lastOp' = "advance_turn" /\ Len(state.agents) >= 1) =>
          LET n == Len(state.agents)
          IN /\ state'.current_turn_index = (state.current_turn_index + 1) % n
             /\ state'.rounds_completed =
                   IF state.current_turn_index = n - 1
                   THEN state.rounds_completed + 1
                   ELSE state.rounds_completed]_vars

\* a second wrap of a roster of two or more
C5_Witness ==
    /\ lastOp = "advance_turn"
    /\ Len(state.agents) >= 2
    /\ state.current_turn_index = 0
    /\ state.rounds_completed >= 2

\* C6 (EngineSpec): advance_turn() in status COMPLETED changes neither status nor
\* current_turn_index nor rounds_completed (sessions with max_rounds >= 1).
C6_AdvanceNoOpWhenCompleted ==
    [][(state.max_rounds >= 1 /\ state.status = "COMPLETED"
            /\ lastOp' = "advance_turn") =>
          /\ state'.status = "COMPLETED"
          /\ state'.current_turn_index = state.current_turn_index
          /\ state'.rounds_completed = state.rounds_completed]_vars

\* C7 (SpecAll): status COMPLETED implies rounds_completed >= max_rounds, under
\* the controller and under direct scheduler calls.
C7_CompletedImpliesRounds ==
    state.status = "COMPLETED" => state.rounds_completed >= state.max_rounds

\* the controller has just completed a session of at least one round
C7_Witness ==
    /\ mode = "interactive"
    /\ lastOp = "handle_turn_complete"
    /\ state.status = "COMPLETED"
    /\ state.max_rounds >= 1
    /\ Len(state.agents) >= 2

\* C8 (EngineSpec): whenever rounds_completed >= max_rounds, status is COMPLETED
\* (stated for max_rounds >= 1; with max_rounds = 0, which the constructor
\* accepts, it fails in the initial state already).
C8_RoundsImplyCompleted ==
    (state.max_rounds >= 1 /\ state.rounds_completed >= state.max_rounds) =>
        state.status = "COMPLETED"

\* C9 (ScenarioSpec): n >= 1 agents, max_rounds r >= 1, one append_message and
\* one advance_turn per turn after start: RUNNING while fewer than n*r turns are
\* done; after the (n*r)-th, COMPLETED with index 0, r rounds, n*r messages.
C9_CompletesOnLastTurn ==
    (pc \in {"append", "advance", "done"} /\ Len(state.agents) >= 1 /\ state.max_rounds >= 1) =>
        /\ turn < TurnsTotal => state.status = "RUNNING"
        /\ turn = TurnsTotal =>
              /\ state.status = "COMPLETED"
              /\ state.current_turn_index = 0
              /\ state.rounds_completed = state.max_rounds
              /\ Len(state.history) = TurnsTotal

\* 2 agents, 2 rounds: the 4th advance_turn has just run
C9_Witness ==
    /\ mode = "test"
    /\ lastOp = "advance_turn"
    /\ Len(state.agents) = 2
    /\ state.max_rounds = 2
    /\ turn = 4
    /\ state.status = "COMPLETED"

\* C10 (EngineSpec): append_message and inject_message change nothing but
\* history, which gains exactly one message at its end, and last_updated, which
\* gets the time of the call; an inject_message that raises changes nothing.
C10_AppendFrame ==
    [][/\ lastOp' \in {"append_message", "inject_message"} =>
            /\ state'.current_turn_index = state.current_turn_index
            /\ state'.rounds_completed = state.rounds_completed
            /\ state'.status = state.status
            /\ state'.agents = state.agents
            /\ state'.max_rounds = state.max_rounds
            /\ Len(state'.history) = Len(state.history) + 1
            /\ SubSeq(state'.history, 1, Len(state.history)) = state.history
            /\ state'.last_updated = clock
       /\ lastOp' = "inject_message:ValidationError" => state' = state]_vars

\* an injection into a session that is COMPLETED and mid-roster
C10_Witness ==
    /\ mode = "headless"
    /\ lastOp = "inject_message"
    /\ state.status = "COMPLETED"
    /\ state.current_turn_index = 1
    /\ state.history[Len(state.history)].is_injection

Last(seq) == seq[Len(seq)]

\* C11: in any status, COMPLETED included, an inject_message(content, weight)
\* that returns leaves as the last history entry a message of sender_id
\* 'director', sender_name 'Director', role 'user', is_injection true, the
\* weight passed and the content passed, appended to the history as it was.
C11_InjectionRecord ==
    [][lastOp' = "inject_message" =>
         /\ state'.history = Append(state.history, Last(state'.history))
         /\ Last(state'.history).sender_id = "director"
         /\ Last(state'.history).sender_name = "Director"
         /\ Last(state'.history).role = "user"
         /\ Last(state'.history).is_injection = TRUE
         /\ Last(state'.history).influence_weight = lastArg'.weight
         /\ Last(state'.history).content = lastArg'.content]_vars

C11_Witness ==
    /\ lastOp = "inject_message"
    /\ state.status = "COMPLETED"
    /\ lastArg.weight = 90
    /\ Last(state.history).influence_weight = 90

\* C12: when a dispatch failure is delivered while the status is RUNNING,
\* handle_error leaves the status PAUSED and leaves history,
\* current_turn_index and rounds_completed as they were.
C12_ErrorPauses ==
    [][(lastOp' = "handle_error" /\ state.status = "RUNNING") =>
         /\ state'.status = "PAUSED"
         /\ state'.history = state.history
         /\ state'.current_turn_index = state.current_turn_index
         /\ state'.rounds_completed = state.rounds_completed]_vars

C12_Witness ==
    /\ lastOp = "handle_error"
    /\ lastArg.status = "RUNNING"
    /\ state.status = "PAUSED"
    /\ Len(state.history) >= 1

\* the handlers that end in a call of trigger_next_turn
TriggerSteps == {"start_debate", "on_resume", "settle_timeout", "release_lock_and_trigger"}

\* C13: a trigger_next_turn that finds the status other than RUNNING, or the
\* delay lock held, dispatches no worker; and a step that is nothing but
\* that call (the settle timer firing) changes neither the session nor the lock.
C13_TriggerNoOp ==
    [][(lastOp' \in TriggerSteps /\ (state'.status # "RUNNING" \/ is_waiting_delay')) =>
         /\ in_flight' = in_flight
         /\ lastOp' = "settle_timeout" =>
              (state' = state /\ is_waiting_delay' = is_waiting_delay)]_vars

C13_Witness ==
    /\ lastOp = "settle_timeout"
    /\ is_waiting_delay
    /\ state.status = "RUNNING"
    /\ api_key
    /\ in_flight = << >>

\* the number of advance_turn calls a session has seen: each call moves the
\* index one place and counts a round at each wrap
TurnsAdvanced(s) == s.rounds_completed * Len(s.agents) + s.current_turn_index

\* C14: under the controller the number of advance_turn calls equals the
\* number of assistant messages in history after every step; an accepted
\* worker result adds one to each, and no other step changes either.
C14_OneAdvancePerReply ==
    [][/\ TurnsAdvanced(state') = AssistantCount(state'.history)
       /\ IF lastOp' = "handle_turn_complete"
          THEN /\ AssistantCount(state'.history) = AssistantCount(state.history) + 1
               /\ TurnsAdvanced(state') = TurnsAdvanced(state) + 1
          ELSE /\ \/ state'.history = state.history
                  \/ AssistantCount(state'.history) = AssistantCount(state.history)
               /\ TurnsAdvanced(state') = TurnsAdvanced(state)]_vars

C14_Witness ==
    /\ lastOp = "handle_turn_complete"
    /\ AssistantCount(state.history) = 2
    /\ TurnsAdvanced(state) = 2
    /\ state.rounds_completed = 1

\* C15: an accepted result that does not complete the session arms the
\* delay lock and its pacing timer, and no worker is dispatched while a
\* pacing interval armed by an append has yet to elapse. As stated: this is
\* what the two workers of C1 break.
C15_NoDispatchWhilePacing ==
    [][/\ (lastOp' = "handle_turn_complete" /\ state'.status # "COMPLETED") =>
             (is_waiting_delay' /\ BagIn(Timer("pacing", PacingTicks), timers'))
       /\ Len(in_flight') > Len(in_flight) =>
             \A t \in BagToSet(timers') : t.kind = "pacing" => t.due = 0]_vars

\* C16: when the settle timer of an injection made under the delay lock
\* fires (the lock is still held, the injection is the last history entry
\* and no other settle timer is pending), the next turn is dispatched. As
\* stated.
C16_InjectionOverridesDelay ==
    [][(/\ lastOp' = "settle_timeout"
        /\ is_waiting_delay
        /\ state.status = "RUNNING"
        /\ api_key
        /\ Len(state.history) > 0
        /\ Last(state.history).is_injection
        /\ \A t \in BagToSet(timers') : t.kind # "settle")
       => Len(in_flight') = Len(in_flight) + 1]_vars

\* C17: the first worker dispatched after an injection accepted while
\* RUNNING carries the shader output for that injection's content and
\* weight. As stated, for sessions of max_rounds >= 1 that have not
\* completed.
C17_NextPromptCarriesInjection ==
    [][(/\ Len(in_flight') > Len(in_flight)
        /\ awaited # NoInstruction
        /\ state.max_rounds >= 1
        /\ ~completed_seen')
       => Last(in_flight').instruction = awaited]_vars

\* C18: on_injection, whatever the status, the lock and the calls in flight,
\* appends exactly one injection message with the content and weight given,
\* makes the status RUNNING if it was PAUSED and leaves it otherwise, leaves
\* current_turn_index and rounds_completed, dispatches nothing itself and
\* adds exactly one settle timer.
C18_InjectionAccepted ==
    [][lastOp' = "on_injection" =>
         /\ state'.history = Append(state.history, Last(state'.history))
         /\ Last(state'.history).is_injection
         /\ Last(state'.history).content = lastArg'.content
         /\ Last(state'.history).influence_weight = lastArg'.weight
         /\ state'.status = IF state.status = "PAUSED" THEN "RUNNING" ELSE state.status
         /\ state'.current_turn_index = state.current_turn_index
         /\ state'.rounds_completed = state.rounds_completed
         /\ in_flight' = in_flight
         /\ is_waiting_delay' = is_waiting_delay
         /\ timers' = timers (+) SetToBag({Timer("settle", SettleTicks)})]_vars

C18_Witness ==
    /\ lastOp = "on_injection"
    /\ lastArg.status = "PAUSED"
    /\ state.status = "RUNNING"
    /\ is_waiting_delay
    /\ Len(in_flight) >= 1
    /\ BagIn(Timer("settle", SettleTicks), timers)

\* C19: on_pause leaves the calls in flight alone, and a worker result
\* delivered while the status is not RUNNING changes nothing of the
\* session, does not arm the lock, schedules no timer and dispatches nothing.
C19_ResultIgnoredUnlessRunning ==
    [][/\ lastOp' = "on_pause" => in_flight' = in_flight
       /\ (/\ lastOp' \in {"handle_turn_complete", "handle_turn_complete:ignored"}
           /\ state.status # "RUNNING")
          => /\ state' = state
             /\ is_waiting_delay' = is_waiting_delay
             /\ timers' = timers
             /\ Len(in_flight') < Len(in_flight)]_vars

C19_Witness ==
    /\ lastOp = "handle_turn_complete:ignored"
    /\ state.status = "PAUSED"
    /\ btn_pause
    /\ ~is_waiting_delay
    /\ timers = EmptyBag
    /\ state.history = << >>

RunSteps == {"run:started", "run:create", "run:chunk", "run:result", "run:except",
             "run:finished"}

\* C20: no step of OpenRouterWorker.run changes a field of the session or
\* anything the controller holds; a step changes only the worker's own
\* position and text and what it has emitted, and what it emits is one of
\* started, token_received, result, error, finished.
C20_WorkerLeavesSession ==
    [][lastOp' \in RunSteps =>
         /\ state' = state
         /\ UNCHANGED <<clock, is_waiting_delay, in_flight, timers, btn_pause, started>>
         /\ \A k \in 1..Len(signals') :
               signals'[k].name \in {"started", "token_received", "result", "error", "finished"}]_vars

C20_Witness ==
    /\ worker_pc = "returned"
    /\ \E k \in 1..Len(signals) :
          signals[k].name = "result" /\ Len(signals[k].arg) >= 2
    /\ state.status = "IDLE"
    /\ state.history = << >>

IsPrefix(p, q) == Len(p) <= Len(q) /\ SubSeq(q, 1, Len(p)) = p

\* C21: across every engine and controller operation the history before
\* the step is a prefix of the history after it: nothing is removed,
\* rewritten, reordered or merged.
C21_HistoryAppendOnly ==
    [][IsPrefix(state.history, state'.history)]_vars

C21_Witness ==
    /\ mode = "interactive"
    /\ lastOp = "handle_turn_complete"
    /\ Len(state.history) = 2
    /\ state.history[1].is_injection
    /\ state.history[2].role = "assistant"

\* C23: the worker a trigger dispatches carries the shader output for the
\* last history entry's stored content and weight when that entry is an
\* injection, and no instruction otherwise; the dispatch leaves the history,
\* stored contents included, as it was.
C23_ShaderOnlyForLastInjection ==
    [][Len(in_flight') > Len(in_flight) =>
         /\ Last(in_flight').instruction =
               IF Len(state'.history) > 0 /\ Last(state'.history).is_injection
               THEN apply_influence_shader(Last(state'.history).content,
                                           Last(state'.history).influence_weight)
               ELSE NoInstruction
         /\ state'.history = state.history]_vars

C23_Witness ==
    /\ lastOp = "settle_timeout"
    /\ Len(in_flight) = 1
    /\ Len(state.history) = 2
    /\ state.history[1].role = "assistant"
    /\ Last(state.history).is_injection
    /\ Last(state.history).content = "stop"
    /\ in_flight[1].instruction = apply_influence_shader("stop", 90)

\* C28: start() on an empty roster raises and leaves every field of the
\* state as it was; on a non-empty roster it returns with status RUNNING and
\* every other field as it was.
C28_StartNeedsAgents ==
    [][lastOp' \in {"start", "start:ValueError"} =>
         IF Len(state.agents) = 0
         THEN lastOp' = "start:ValueError" /\ state' = state
         ELSE lastOp' = "start" /\ state' = [state EXCEPT !.status = "RUNNING"]]_vars

C28_Witness ==
    /\ lastOp = "start:ValueError"
    /\ state.agents = << >>
    /\ state.status = "IDLE"
    /\ mode = "headless"

\* C22: apply_influence_shader returns exactly one of three templates,
\* chosen by the weight alone: Subtle for weight <= 0.3, Mandatory for
\* 0.3 < weight <= 0.7, Override above 0.7, with 0.3 and 0.7 in the lower
\* tier; the output carries the content given and, in the Override template,
\* the weight to one decimal, so it is fixed by (content, weight).
C22_ShaderTiers ==
    lastOp = "apply_influence_shader" =>
        /\ result.template \in {"Subtle", "Mandatory", "Override"}
        /\ (result.template = "Subtle") <=> (args.weight <= 30)
        /\ (result.template = "Mandatory") <=> (args.weight > 30 /\ args.weight <= 70)
        /\ (result.template = "Override") <=> (args.weight > 70)
        /\ result.content = args.content
        /\ result.priority = IF args.weight > 70 THEN Format1f(args.weight) ELSE 0

C22_Witness ==
    /\ lastOp = "apply_influence_shader"
    /\ args.weight = 30
    /\ result.template = "Subtle"
    /\ result.content = "stop"

\* the window of the last k elements of h, in their order
Window(h, k) == IF Len(h) > k THEN SubSeq(h, Len(h) - k + 1, Len(h)) ELSE h

\* C24: for a history of length m and a limit k >= 0, the interactive
\* window and the batch window are the last k messages in their order when
\* m > k and the whole history when m <= k. As stated.
C24_Window ==
    /\ lastOp = "get_context_for_current_turn" =>
          result = transcript(Window(args.history, args.limit))
    /\ lastOp = "prune_history" =>
          result = Window(args.history, args.limit)

RECURSIVE Pow2(_)
Pow2(n) == IF n = 0 THEN 1 ELSE 2 * Pow2(n - 1)

\* C25: with max_tries = m >= 1 the operation is called at most m times;
\* the helper returns the result of the first call that succeeds, after one
\* wait per failed call before it; when every call fails with an exception
\* it retries on, it raises the exception of call m after exactly m calls
\* and m - 1 waits; wait i lasts initial_delay * 2^(i-1), so the waits never
\* decrease.
C25_Backoff ==
    (mode = "backoff" /\ result # NoArg /\ args.max_tries >= 1) =>
        /\ tries <= args.max_tries
        /\ Len(waits) <= args.max_tries - 1
        /\ \A i \in 1..Len(waits) : waits[i] = args.initial_delay * Pow2(i - 1)
        /\ \A i \in 1..Len(waits) - 1 : waits[i] <= waits[i + 1]
        /\ result = Running => Len(waits) = tries
        /\ result.status = "returned" => Len(waits) = tries - 1
        /\ (result.status = "raised" /\ result.class = "raises") =>
              /\ tries = args.max_tries
              /\ result.call = args.max_tries
              /\ Len(waits) = args.max_tries - 1

C25_Witness ==
    /\ mode = "backoff"
    /\ result = Raised("raises", 3)
    /\ args.max_tries = 3
    /\ args.initial_delay = 1
    /\ tries = 3
    /\ waits = <<1, 2>>

\* the agent turn attempts that have ended when the loop is at the head of
\* a turn: every agent in each earlier round, and the earlier agents of this one
AttemptsEnded == round_index * Len(cfg.agents) + agent_index - 1

C27_NoTurnAfterShutdown ==
    [][mode = "batch" =>
        /\ shutdown_event => shutdown_event'
        /\ (batch_pc' \in {"call", "input"} /\ batch_pc = "agent") => ~shutdown_event
        /\ (batch_pc' = "agent" /\ batch_pc = "round") => ~shutdown_event
        /\ (shutdown_event /\ batch_pc = "agent") => batch_pc' = "round_end"
        /\ (shutdown_event /\ batch_pc \in {"round", "round_end"}) => batch_pc' = "done"
        /\ (shutdown_event /\ batch_pc \in {"call", "input", "prompt", "delay"}) =>
              batch_pc' \in {batch_pc, "prompt", "delay", "agent", "round_end"}
        /\ (shutdown_event' /\ ~shutdown_event) =>
              \/ lastOp' = "signal_handler"
              \/ lastOp' = "prompt" /\ batch_pc' = "round_end"
              \/ lastOp' \in {"call_model", "user_turn"} /\ batch_pc' = "round_end"]_vars

\* a signal arrived during the first agent's model call; the turn was
\* finished and logged, the second agent never got a turn, and run_debate
\* has left its loops
C27_Witness ==
    /\ mode = "batch"
    /\ shutdown_event
    /\ batch_pc = "done"
    /\ Len(cfg.agents) = 2
    /\ cfg.rounds_total = 2
    /\ ~cfg.interactive
    /\ cfg.stop_on_repeat = 0
    /\ round_index = 0
    /\ agent_index = 2
    /\ Len(log_file) = 1
    /\ log_file[1].content = "x"

\* C29: every state the engine reaches is written to a document that
\* validates and reads back as the same state, field for field; and a load
\* of an untouched snapshot, into the engine that saved it or into a new
\* one, leaves exactly the state that was saved.
C29_RoundTrip ==
    mode = "snapshot" =>
        /\ LET text == to_json(state)
               loaded == from_json(text, clock)
           IN /\ ~from_json_raises(text)
              /\ DOMAIN loaded = DOMAIN state
              /\ \A key \in DOMAIN state : loaded[key] = state[key]
        /\ (lastOp = "save_to_file") => file = Written(to_json(state))
        /\ (lastOp = "load_from_file" /\ args.damage = "none") => state = args.saved

\* a running two-agent session with a reply and a weighted injection,
\* saved, and loaded into a new engine
C29_Witness ==
    /\ mode = "snapshot"
    /\ lastOp = "load_from_file"
    /\ args.damage = "none"
    /\ args.renewed
    /\ Len(state.agents) = 2
    /\ state.status = "RUNNING"
    /\ Len(state.history) = 2
    /\ ~state.history[1].is_injection
    /\ state.history[2].is_injection
    /\ state.history[2].influence_weight = 90

\* C30: a load of a snapshot that is missing, cut short, another document,
\* or a DebateState document with an unknown status, a message without
\* content or a weight out of range, is reported as an error and leaves the
\* engine's state as it was; the state changes in a load only to the state
\* read from a document that validated as a whole.
C30_FailedLoadKeepsState ==
    [][(mode = "snapshot" /\ lastOp' \in {"load_from_file", "load_from_file:error"}) =>
        /\ (file = NoFile \/ (args # NoArg /\ args.damage \in Fatal)) =>
              lastOp' = "load_from_file:error"
        /\ lastOp' = "load_from_file:error" => state' = state
        /\ lastOp' = "load_from_file" =>
              /\ args.damage \in {"none", "no_topic"}
              /\ state' = IF args.damage = "none" THEN args.saved
                          ELSE [args.saved EXCEPT !.topic = ""]]_vars

\* a running session whose snapshot on disk was given an unknown status:
\* the load failed and the session is as it was
C30_Witness ==
    /\ mode = "snapshot"
    /\ lastOp = "load_from_file:error"
    /\ args # NoArg
    /\ args.damage = "unknown_status"
    /\ ~args.renewed
    /\ state = args.saved
    /\ state.status = "RUNNING"
    /\ Len(state.history) = 2

\* C31: Message(...) with a weight outside [0,1] and AgentConfig(...) with a
\* temperature outside [0,2] raise, and inside the range the object carries
\* the value given, never another one; inject_message with a weight outside
\* [0,1] raises and leaves history and every other field of the state as
\* they were.
C31_OutOfRangeRejected ==
    [][mode = "models" =>
        /\ lastOp' = "Message" =>
              IF args'.influence_weight < 0 \/ args'.influence_weight > 100
              THEN result' = [raised |-> "ValidationError"]
              ELSE result'.influence_weight = args'.influence_weight
        /\ lastOp' = "AgentConfig" =>
              IF args'.temperature < 0 \/ args'.temperature > 200
              THEN result' = [raised |-> "ValidationError"]
              ELSE result'.temperature = args'.temperature
        /\ (lastOp' \in {"inject_message", "inject_message:ValidationError"}
            /\ (lastArg' # lastArg \/ lastOp' # lastOp \/ state' # state)) =>
              IF lastArg'.weight < 0 \/ lastArg'.weight > 100
              THEN lastOp' = "inject_message:ValidationError" /\ state' = state
              ELSE Last(state'.history).influence_weight = lastArg'.weight]_vars

\* a running session with one injection in history has just refused an
\* injection of weight 1.5
C31_Witness ==
    /\ mode = "models"
    /\ lastOp = "inject_message:ValidationError"
    /\ lastArg.weight = 150
    /\ state.status = "RUNNING"
    /\ Len(state.history) = 1

\* C32: a worker error leaves the session PAUSED, and from a PAUSED session
\* every step other than a resume or an injection -- the pacing timer, the
\* settle timer, a late result, another error -- keeps it PAUSED and starts
\* no worker.
C32_NoAutomaticRetry ==
    [][mode = "interactive" =>
        /\ lastOp' = "handle_error" => state'.status = "PAUSED"
        /\ state.status = "PAUSED" =>
              \/ lastOp' \in {"on_resume", "on_injection"}
              \/ /\ state'.status = "PAUSED"
                 /\ Len(in_flight') <= Len(in_flight)]_vars

\* a worker has just failed in a running session while a pacing timer is
\* still pending
C32_Witness ==
    /\ mode = "interactive"
    /\ lastOp = "handle_error"
    /\ lastArg.status = "RUNNING"
    /\ state.status = "PAUSED"
    /\ is_waiting_delay
    /\ \E t \in BagToSet(timers) : t.kind = "pacing"

\* C33 (EngineSpec): an advance_turn() call on a roster of n >= 1 changes
\* status only when the index wraps from n - 1 to 0 and the incremented
\* rounds_completed reaches max_rounds, and then to COMPLETED; a call that
\* does not wrap leaves status as it was (sessions with max_rounds >= 1).
C33_CompletesOnlyOnWrap ==
    [][(lastOp' = "advance_turn" /\ Len(state.agents) >= 1 /\ state.max_rounds >= 1) =>
          LET wraps == state.current_turn_index = Len(state.agents) - 1
          IN /\ state'.status # state.status =>
                   /\ wraps
                   /\ state'.status = "COMPLETED"
                   /\ state.rounds_completed + 1 >= state.max_rounds
             /\ ~wraps => state'.status = state.status]_vars

\* C34 (RunSpec): with n >= 1 agents, max_rounds = r >= 1 and the API key
\* present, a started session that is left alone reaches COMPLETED; when it
\* is COMPLETED history holds exactly n*r assistant messages, no worker is in
\* flight, no timer is pending and the delay lock is free.
C34_RunToCompletion ==
    /\ [](( /\ mode = "run" /\ api_key
            /\ Len(state.agents) >= 1 /\ state.max_rounds >= 1
            /\ state.status = "COMPLETED") =>
              /\ AssistantCount(state.history) = Len(state.agents) * state.max_rounds
              /\ Len(state.history) = Len(state.agents) * state.max_rounds
              /\ in_flight = << >>
              /\ timers = EmptyBag
              /\ ~is_waiting_delay)
    /\ ( /\ mode = "run" /\ api_key /\ started
         /\ Len(state.agents) >= 1 /\ state.max_rounds >= 1 )
          ~> (state.status = "COMPLETED")

\* 2 agents, 2 rounds: the fourth reply has completed the session
C34_Witness ==
    /\ mode = "run"
    /\ lastOp = "handle_turn_complete"
    /\ Len(state.agents) = 2
    /\ state.max_rounds = 2
    /\ state.status = "COMPLETED"
    /\ Len(state.history) = 4

\* C35: every assistant message the controller appends is sent by the agent
\* that current_turn_index points at when it is appended; with two or more
\* agents it is never sent by the sender of the assistant message before it
\* (sessions with max_rounds >= 1 that have not completed).
C35_RoundRobinAttribution ==
    [][(mode = "interactive" /\ lastOp' = "handle_turn_complete"
            /\ Len(state'.history) = Len(state.history) + 1
            /\ state.max_rounds >= 1 /\ ~completed_seen) =>
          /\ Last(state'.history).role = "assistant"
          /\ Last(state'.history).sender_id = get_current_agent(state).id
          /\ Len(state.agents) >= 2 =>
                \A i \in 1..Len(state.history) :
                    (/\ state.history[i].role = "assistant"
                     /\ \A j \in i + 1..Len(state.history) :
                           state.history[j].role # "assistant")
                    => state.history[i].sender_id # Last(state'.history).sender_id]_vars

\* C36: the delay lock is never held without a pacing timer pending that
\* will free it within the pacing interval, and the pacing timer, when it
\* fires, leaves the lock free whatever the status is then (RUNNING, PAUSED
\* or COMPLETED); so a lock is never left behind to block a later resume or
\* injection.
C36_LockReleased ==
    [][mode = "interactive" =>
        /\ is_waiting_delay' =>
              \E t \in BagToSet(timers') : t.kind = "pacing" /\ t.due <= PacingTicks
        /\ (lastOp' = "release_lock_and_trigger" /\ timers' # timers) =>
              ~is_waiting_delay'
        /\ (is_waiting_delay /\ ~is_waiting_delay') =>
              lastOp' = "release_lock_and_trigger"]_vars

\* the pacing timer fired in a session paused meanwhile and freed the lock
C36_Witness ==
    /\ mode = "interactive"
    /\ lastOp = "release_lock_and_trigger"
    /\ state.status = "PAUSED"
    /\ ~is_waiting_delay
    /\ timers = EmptyBag
    /\ in_flight = << >>
    /\ Len(state.history) = 1

\* the positions in the emissions of a run that carry one of the names
Emitted(names) == { k \in 1..Len(signals) : signals[k].name \in names }

\* the token fragments emitted before position k, put together in order
RECURSIVE TokensBefore(_)
TokensBefore(k) ==
    IF k <= 1 THEN << >>
    ELSE TokensBefore(k - 1) \o
         (IF signals[k - 1].name = "token_received" THEN signals[k - 1].arg ELSE << >>)

\* C37 (WorkerSpec): a run emits started first and only once; then tokens;
\* then at most one of result and error, after every token; finished comes
\* last, only once, and only after a result or an error; a run that has
\* returned has emitted exactly one of result and error, and finished. The
\* text of a result is the concatenation, in order, of the tokens emitted.
C37_SignalOrder ==
    mode = "worker" =>
        /\ Emitted({"started"}) = IF signals = << >> THEN {} ELSE {1}
        /\ Cardinality(Emitted({"result", "error"})) <= 1
        /\ \A k \in Emitted({"token_received"}) :
              \A j \in Emitted({"result", "error", "finished"}) : k < j
        /\ \A k \in Emitted({"finished"}) :
              /\ k = Len(signals)
              /\ k - 1 \in Emitted({"result", "error"})
        /\ worker_pc = "returned" =>
              /\ Cardinality(Emitted({"result", "error"})) = 1
              /\ Emitted({"finished"}) = {Len(signals)}
        /\ \A k \in Emitted({"result"}) : signals[k].arg = TokensBefore(k)

\* started, two tokens, the result "abc", finished
C37_Witness ==
    /\ mode = "worker"
    /\ worker_pc = "returned"
    /\ Len(signals) = 5
    /\ signals[2] = Signal("token_received", <<"a">>)
    /\ signals[3] = Signal("token_received", <<"b", "c">>)
    /\ signals[4] = Signal("result", <<"a", "b", "c">>)
    /\ signals[5].name = "finished"

\* C38: without an API key a handler that ends in trigger_next_turn starts
\* no worker and arms no timer; history, current_turn_index and
\* rounds_completed are as before, and the status is what the handler's own
\* engine call made it (RUNNING after start and resume, unchanged when a
\* timer fired), so the timer steps leave the whole session unchanged.
C38_NoKeyNoDispatch ==
    [][(mode = "interactive" /\ ~api_key /\ lastOp' \in TriggerSteps) =>
          /\ in_flight' = << >>
          /\ in_flight = << >>
          /\ BagCardinality(timers') <= BagCardinality(timers)
          /\ state'.history = state.history
          /\ state'.current_turn_index = state.current_turn_index
          /\ state'.rounds_completed = state.rounds_completed
          /\ lastOp' \in {"settle_timeout", "release_lock_and_trigger"} => state' = state
          /\ (lastOp' \in {"start_debate", "on_resume"} /\ lastOp # lastOp') =>
                state' = [state EXCEPT !.status = "RUNNING"]]_vars

\* a running session with an agent to call, no lock and no key: the settle
\* timer fired and nothing was dispatched
C38_Witness ==
    /\ mode = "interactive"
    /\ ~api_key
    /\ lastOp = "settle_timeout"
    /\ state.status = "RUNNING"
    /\ Len(state.agents) >= 1
    /\ ~is_waiting_delay
    /\ in_flight = << >>
    /\ timers = EmptyBag

\* how much of run_debate lies ahead at most: rounds not yet begun, agents
\* of this round not yet served, steps left in this turn, model calls left
\* in this attempt
WorkLeft(at, r, a, t) ==
    LET n == Len(cfg.agents)
        served == IF at = "round" THEN 0 ELSE IF at = "round_end" THEN n + 1 ELSE a
        steps == CASE at = "round" -> 21
                   [] at = "agent" -> 21
                   [] at = "call" -> 17 + (ModelMaxTries - t)
                   [] at = "input" -> 17
                   [] at = "prompt" -> 9
                   [] at = "delay" -> 5
                   [] at = "round_end" -> 1
    IN IF at = "done" THEN 0
       ELSE (cfg.rounds_total - r) * (n + 2) * 32 + (n + 1 - served) * 32 + steps

\* C39: a turn attempt begins only for round r < rounds_total and agent
\* a <= len(agents); the agent counter only moves to the next agent of the
\* roster or back to the first when a round begins, and the round counter
\* only moves to the next round, so each agent is attempted at most once per
\* round, in roster order, and at most rounds_total * len(agents) times in
\* all; an attempt makes at most 3 model calls; and every step of run_debate
\* reduces the work left, so the function exits after finitely many steps.
C39_BoundedWork ==
    [][(mode = "batch" /\ batch_pc # "entry") =>
        /\ (batch_pc = "agent" /\ batch_pc' \in {"call", "input"}) =>
              /\ round_index < cfg.rounds_total
              /\ agent_index >= 1 /\ agent_index <= Len(cfg.agents)
        /\ agent_index' # agent_index =>
              \/ agent_index' = agent_index + 1 /\ round_index' = round_index
              \/ agent_index' = 1 /\ batch_pc = "round"
        /\ round_index' # round_index =>
              round_index' = round_index + 1 /\ batch_pc = "round_end"
        /\ round_index' <= cfg.rounds_total
        /\ agent_index' <= Len(cfg.agents) + 1
        /\ tries' <= ModelMaxTries
        /\ Len(waits') <= ModelMaxTries - 1
        /\ lastOp' # "signal_handler" =>
              WorkLeft(batch_pc', round_index', agent_index', tries')
                  < WorkLeft(batch_pc, round_index, agent_index, tries)]_vars

\* 2 agents, 2 rounds, no prompt and no signal: run_debate has exited after
\* four attempts, the last of them failed after three model calls
C39_Witness ==
    /\ mode = "batch"
    /\ batch_pc = "done"
    /\ ~shutdown_event
    /\ Len(cfg.agents) = 2
    /\ cfg.rounds_total = 2
    /\ ~cfg.interactive
    /\ round_index = 2
    /\ Len(log_file) = 4
    /\ log_file[4].content = "<ERROR>"
    /\ tries = 3

\* C40: with a configured delay > 0, every turn attempt, successful or
\* failed, ends with the delay being waited out before the loop moves to the
\* next agent, and a model call for a later agent of the round is issued only
\* right after that wait.
C40_DelayAfterEveryAttempt ==
    [][(mode = "batch" /\ batch_pc # "entry" /\ cfg.delay > 0) =>
        /\ (batch_pc \in {"call", "input", "prompt", "delay"}
                /\ agent_index' = agent_index + 1) =>
              lastOp' = "delay_with_countdown"
        /\ (batch_pc = "agent" /\ batch_pc' = "call" /\ agent_index > 1) =>
              lastOp = "delay_with_countdown"]_vars

====
